---- MODULE Spec2Model ----
(***************************************************************************)
(* The article store of seo-agent-sdk (src/mcp_servers/articles_server.py):*)
(* one JSON file per article in ARTICLES_DIR, five tools that scan the     *)
(* directory.  Strings are sequences of one-character strings, JSON values *)
(* are tagged records, a file is its parsed document plus its byte size.   *)
(***************************************************************************)
EXTENDS Integers, Sequences, FiniteSets, TLC

VARIABLES files, clock, result, storeOnly, proc, lastWriter, calls, issued

vars == <<files, clock, result, storeOnly, proc, lastWriter, calls, issued>>

(***************************************************************************)
(* Bounds of the model.                                                    *)
(***************************************************************************)
\* most files the directory holds at once
MaxFiles == 2
\* last tick of the wall clock
MaxClock == 2
\* clock ticks in one wall-clock second
TicksPerSec == 2
\* most calls one process makes when calls overlap
MaxCalls == 2
\* longest text slugify is given
MaxLen == 5

(***************************************************************************)
(* Characters.                                                             *)
(***************************************************************************)
UpperCase ==
    <<"A","B","C","D","E","F","G","H","I","J","K","L","M",
      "N","O","P","Q","R","S","T","U","V","W","X","Y","Z">>

LowerCase ==
    <<"a","b","c","d","e","f","g","h","i","j","k","l","m",
      "n","o","p","q","r","s","t","u","v","w","x","y","z">>

DigitChars == <<"0","1","2","3","4","5","6","7","8","9">>

\* the characters of file names in code-point order ("-" 45, "." 46, digits,
\* "_" 95, lower-case letters)
CodeOrder == <<"-", ".">> \o DigitChars \o <<"_">> \o LowerCase

Range(s) == { s[i] : i \in 1..Len(s) }

IndexOf(c, s) == CHOOSE i \in 1..Len(s) : s[i] = c

\* str.lower() on one character
LowerChar(c) == IF c \in Range(UpperCase) THEN LowerCase[IndexOf(c, UpperCase)] ELSE c

\* \w of the re module: letters, digits and underscore
IsWord(c) == c \in Range(UpperCase) \cup Range(LowerCase) \cup Range(DigitChars) \cup {"_"}

\* \s of the re module
IsSpace(c) == c \in {" ", "\t", "\n"}

(***************************************************************************)
(* slugify, one definition per line of the function.                       *)
(***************************************************************************)
RECURSIVE MapLower(_)
\* text.lower()
MapLower(s) == IF s = <<>> THEN <<>> ELSE <<LowerChar(Head(s))>> \o MapLower(Tail(s))

RECURSIVE StripNonWord(_)
\* re.sub(r"[^\w\s-]", "", text)
StripNonWord(s) ==
    IF s = <<>> THEN <<>>
    ELSE IF IsWord(Head(s)) \/ IsSpace(Head(s)) \/ Head(s) = "-"
         THEN <<Head(s)>> \o StripNonWord(Tail(s))
         ELSE StripNonWord(Tail(s))

RECURSIVE SpacesToHyphen(_)
\* re.sub(r"\s+", "-", text): each maximal run of whitespace becomes one hyphen
SpacesToHyphen(s) ==
    IF s = <<>> THEN <<>>
    ELSE IF IsSpace(Head(s))
         THEN IF Len(s) > 1 /\ IsSpace(s[2])
              THEN SpacesToHyphen(Tail(s))
              ELSE <<"-">> \o SpacesToHyphen(Tail(s))
         ELSE <<Head(s)>> \o SpacesToHyphen(Tail(s))

RECURSIVE ReplaceDoubleHyphen(_)
\* text.replace("--", "-"): one pass, each pair of hyphens becomes one
ReplaceDoubleHyphen(s) ==
    IF s = <<>> THEN <<>>
    ELSE IF Head(s) = "-" /\ Len(s) > 1 /\ s[2] = "-"
         THEN <<"-">> \o ReplaceDoubleHyphen(Tail(Tail(s)))
         ELSE <<Head(s)>> \o ReplaceDoubleHyphen(Tail(s))

RECURSIVE CollapseHyphens(_)
\* re.sub(r"-+", "-", text)
CollapseHyphens(s) ==
    IF s = <<>> THEN <<>>
    ELSE IF Head(s) = "-" /\ Len(s) > 1 /\ s[2] = "-"
         THEN CollapseHyphens(Tail(s))
         ELSE <<Head(s)>> \o CollapseHyphens(Tail(s))

RECURSIVE LStrip(_)
LStrip(s) == IF s # <<>> /\ Head(s) = "-" THEN LStrip(Tail(s)) ELSE s

RECURSIVE RStrip(_)
RStrip(s) ==
    IF s # <<>> /\ s[Len(s)] = "-" THEN RStrip(SubSeq(s, 1, Len(s) - 1)) ELSE s

\* text.lstrip("-"): a hyphen at the end stays
StripLeadingHyphens(s) == LStrip(s)

\* text.strip("-")
StripHyphens(s) == RStrip(LStrip(s))

slugify(text) == StripHyphens(CollapseHyphens(SpacesToHyphen(StripNonWord(MapLower(text)))))

(***************************************************************************)
(* The wall clock and its two renderings.  Tick 0 is 2024-01-01T00:00:00;  *)
(* the model stays inside the first minute.                                *)
(***************************************************************************)
Second(t) == t \div TicksPerSec

Micro(t) == (t % TicksPerSec) * (1000000 \div TicksPerSec)

RECURSIVE Digits(_, _)
\* n in decimal, zero-padded to the given width
Digits(n, width) ==
    IF width = 0 THEN <<>>
    ELSE Digits(n \div 10, width - 1) \o <<DigitChars[(n % 10) + 1]>>

\* strftime with the format '%Y%m%d%H%M', the seconds left out
strftimeToMinute(t) ==
    <<"2","0","2","4","0","1","0","1","0","0","0","0">>

\* datetime.now().strftime('%Y%m%d%H%M%S')
strftime(t) ==
    <<"2","0","2","4","0","1","0","1","0","0","0","0">> \o Digits(Second(t), 2)

\* datetime.now().isoformat(): the microseconds are left out when they are 0
isoformat(t) ==
    <<"2","0","2","4","-","0","1","-","0","1","T","0","0",":","0","0",":">>
    \o Digits(Second(t), 2)
    \o (IF Micro(t) = 0 THEN <<>> ELSE <<".">> \o Digits(Micro(t), 6))

(***************************************************************************)
(* JSON values.                                                            *)
(***************************************************************************)
JStr(s) == [t |-> "str", s |-> s]

JNull == [t |-> "null"]

JNum(n) == [t |-> "num", n |-> n]

JList(items) == [t |-> "list", items |-> items]

JDict(d) == [t |-> "dict", d |-> d]

\* dict.get(key): None when the key is missing
Get(d, key) == IF key \in DOMAIN d THEN d[key] ELSE JNull

\* dict.get(key, default)
GetOr(d, key, default) == IF key \in DOMAIN d THEN d[key] ELSE default

\* Python truthiness of a JSON value
Truthy(v) ==
    CASE v.t = "null" -> FALSE
      [] v.t = "str"  -> v.s # <<>>
      [] v.t = "num"  -> v.n # 0
      [] v.t = "list" -> v.items # <<>>
      [] v.t = "dict" -> DOMAIN v.d # {}

RECURSIVE SumLen(_)
SumLen(items) == IF items = <<>> THEN 0 ELSE 2 + Len(Head(items).s) + SumLen(Tail(items))

\* every key a JSON object of the model has
JsonKeys ==
    <<"id", "slug", "title", "metaDescription", "content", "primaryKeyword",
      "secondaryKeywords", "imageUrl", "imageAlt", "schemaMarkup", "status",
      "createdAt", "publishedAt", "context", "type", "headline", "description">>

RECURSIVE JsonSize(_)
RECURSIVE MembersSize(_, _)
\* the number of characters json.dump writes for a value; the punctuation
\* around and between members is left out, it is the same for every record
\* with the same keys
JsonSize(v) ==
    CASE v.t = "null" -> 4
      [] v.t = "str"  -> 2 + Len(v.s)
      [] v.t = "num"  -> 1
      [] v.t = "list" -> SumLen(v.items)
      [] v.t = "dict" -> MembersSize(v.d, 1)

\* the members of d with the keys JsonKeys[i], JsonKeys[i+1], ...
MembersSize(d, i) ==
    IF i > Len(JsonKeys) THEN 0
    ELSE (IF JsonKeys[i] \in DOMAIN d THEN JsonSize(d[JsonKeys[i]]) ELSE 0)
         + MembersSize(d, i + 1)

(***************************************************************************)
(* Files.  A file is what json.load makes of it (ok = it parses); the      *)
(* directory is a function from file names to files.                       *)
(***************************************************************************)
\* a file whose content does not parse (empty, or one dump over the tail of
\* another), size characters long
Unparseable(size) == [ok |-> FALSE, val |-> JNull, size |-> size]

\* a file holding exactly the dump of v
Dumped(v) == [ok |-> TRUE, val |-> v]

FileSize(file) == IF file.ok THEN JsonSize(file.val) ELSE file.size

\* open(file_path, "w"): the file is created or truncated to nothing
OpenForWrite(fs, path) ==
    [f \in DOMAIN fs \cup {path} |-> IF f = path THEN Unparseable(0) ELSE fs[f]]

\* json.dump through a handle opened with "w": the dump goes to offset 0 of
\* whatever the file holds by then; bytes beyond the dump stay
WriteAtStart(fs, path, v) ==
    [f \in DOMAIN fs |->
        IF f # path THEN fs[f]
        ELSE IF FileSize(fs[f]) = 0 \/ FileSize(fs[f]) <= JsonSize(v) THEN Dumped(v)
        ELSE Unparseable(FileSize(fs[f]))]

\* Path.unlink()
Unlink(fs, path) == [f \in DOMAIN fs \ {path} |-> fs[f]]

DotJson == <<".", "j", "s", "o", "n">>

Code(c) == IndexOf(c, CodeOrder)

RECURSIVE LexLessFrom(_, _, _)
\* a[i..] < b[i..] when a and b agree before position i
LexLessFrom(a, b, i) ==
    IF i > Len(b) THEN FALSE
    ELSE IF i > Len(a) THEN TRUE
    ELSE IF a[i] = b[i] THEN LexLessFrom(a, b, i + 1)
    ELSE Code(a[i]) < Code(b[i])

\* a < b for two file names, as str compares them
LexLess(a, b) == LexLessFrom(a, b, 1)

RECURSIVE SortedDesc(_)
\* sorted(ARTICLES_DIR.glob("*.json"), reverse=True)
SortedDesc(S) ==
    IF S = {} THEN <<>>
    ELSE LET top == CHOOSE x \in S : \A y \in S \ {x} : LexLess(y, x)
         IN  <<top>> \o SortedDesc(S \ {top})

\* ARTICLES_DIR.glob("*.json"): every order the directory may be listed in
GlobOrders(fs) ==
    { o \in [1..Cardinality(DOMAIN fs) -> DOMAIN fs] :
        \A i, j \in DOMAIN o : i # j => o[i] # o[j] }

\* Matches without the comparison with the argument: any object with a slug
MatchesAnySlug(file, slug) ==
    file.ok /\ file.val.t = "dict" /\ "slug" \in DOMAIN file.val.d

\* json.load gives a dict whose "slug" equals the argument; a file that does
\* not parse, or parses to something without .get, raises inside the try
Matches(file, slug) ==
    file.ok /\ file.val.t = "dict" /\ Get(file.val.d, "slug") = JStr(slug)

(***************************************************************************)
(* Return values of the tools.                                             *)
(***************************************************************************)
NotFound(op, slug) == [op |-> op, kind |-> "notfound", slug |-> slug]

Fault(op, exc) == [op |-> op, kind |-> "fault", exc |-> exc]

NoCall == [op |-> "none", kind |-> "none"]

\* a return value together with what the file system did during the call
WithIo(ret, io) == [k \in DOMAIN ret \cup {"io"} |-> IF k = "io" THEN io ELSE ret[k]]

\* a return value together with the arguments of the call
WithRequest(ret, req) ==
    [k \in DOMAIN ret \cup {"request"} |-> IF k = "request" THEN req ELSE ret[k]]

(***************************************************************************)
(* save_article                                                            *)
(***************************************************************************)
GuideSuffix ==
    <<" ","-"," ","P","r","e","m","i","u","m"," ","G","i","n"," ","a","n","d",
      " ","T","o","n","i","c"," ","G","u","i","d","e">>

\* lines 68-73
DefaultSchema(title, meta_description) ==
    JDict([context |-> JStr(<<"s","c","h","e","m","a",".","o","r","g">>),
           type |-> JStr(<<"A","r","t","i","c","l","e">>),
           headline |-> JStr(title),
           description |-> JStr(meta_description)])

\* lines 54-77: the record built from the arguments, the time read for the id
\* (tId) and the time read for the timestamps (tNow)
NewArticle(req, tId, tNow) ==
    LET slug == slugify(req.title)
        now  == isoformat(tNow)
    IN  [id |-> JStr(slug \o <<"-">> \o strftime(tId)),
         slug |-> JStr(slug),
         title |-> JStr(req.title),
         metaDescription |-> JStr(req.meta_description),
         content |-> JStr(req.content),
         primaryKeyword |-> JStr(req.primary_keyword),
         secondaryKeywords |-> JList(req.secondary_keywords),
         imageUrl |-> JStr(req.image_url),
         imageAlt |-> JStr(req.title \o GuideSuffix),
         schemaMarkup |-> IF Truthy(req.schema_markup) THEN req.schema_markup
                          ELSE DefaultSchema(req.title, req.meta_description),
         status |-> JStr(<<"p","u","b","l","i","s","h","e","d">>),
         createdAt |-> JStr(now),
         publishedAt |-> JStr(now)]

\* the path made of the slug alone
ArticlePathBySlug(article) == article.slug.s \o DotJson

\* line 79
ArticlePath(article) == article.id.s \o DotJson

Saved(article) ==
    [op |-> "save_article", kind |-> "saved", id |-> article.id.s,
     slug |-> article.slug.s, path |-> ArticlePath(article)]

\* lines 79-83 run without interruption.  io is what the file system does to
\* the write: "ok", "open" (open raises, nothing is touched) or "write" (the
\* file is opened and truncated, the dump raises)
SaveOutcome(fs, article, io) ==
    LET path == ArticlePath(article)
    IN  CASE io = "open"  -> [files |-> fs, ret |-> Fault("save_article", "OSError")]
          [] io = "write" -> [files |-> OpenForWrite(fs, path),
                              ret |-> Fault("save_article", "OSError")]
          [] OTHER        -> [files |-> WriteAtStart(OpenForWrite(fs, path), path, JDict(article)),
                              ret |-> Saved(article)]

(***************************************************************************)
(* get_articles                                                            *)
(***************************************************************************)
All == <<"a","l","l">>

RECURSIVE Collect(_, _, _, _, _)
\* lines 100-109: the loop over the sorted names; acc is `articles`.  With
\* status "all" the `or` never calls article.get, so any parsed value is kept
Collect(fs, todo, status, limit, acc) ==
    IF todo = <<>> THEN acc
    ELSE LET file == fs[Head(todo)]
         IN  IF ~file.ok
             THEN Collect(fs, Tail(todo), status, limit, acc)
             ELSE IF status # All /\ file.val.t # "dict"
             THEN Collect(fs, Tail(todo), status, limit, acc)
             ELSE IF status = All \/ Get(file.val.d, "status") = JStr(status)
                  THEN LET more == Append(acc, file.val)
                       IN  IF Len(more) >= limit THEN more
                           ELSE Collect(fs, Tail(todo), status, limit, more)
                  ELSE Collect(fs, Tail(todo), status, limit, acc)

\* lines 116-121, outside the try: a.get raises on a value that is no dict,
\* and a.get('createdAt', 'N/A')[:10] raises unless the value can be sliced
Printable(a) ==
    /\ a.t = "dict"
    /\ GetOr(a.d, "createdAt", JStr(<<"N","/","A">>)).t \in {"str", "list"}

\* get_articles with sorted(...) without reverse=True: ascending names
get_articles_ascending(fs, status, limit) ==
    LET desc     == SortedDesc(DOMAIN fs)
        asc      == [i \in 1..Len(desc) |-> desc[Len(desc) + 1 - i]]
        articles == Collect(fs, asc, status, limit, <<>>)
    IN  IF articles = <<>>
        THEN [op |-> "get_articles", kind |-> "empty", articles |-> <<>>,
              status |-> status, limit |-> limit]
        ELSE IF \E i \in 1..Len(articles) : ~Printable(articles[i])
        THEN Fault("get_articles", "AttributeError or TypeError")
        ELSE [op |-> "get_articles", kind |-> "listing", articles |-> articles,
              status |-> status, limit |-> limit]

\* lines 98-123
get_articles(fs, status, limit) ==
    LET articles == Collect(fs, SortedDesc(DOMAIN fs), status, limit, <<>>)
    IN  IF articles = <<>>
        THEN [op |-> "get_articles", kind |-> "empty", articles |-> <<>>,
              status |-> status, limit |-> limit]
        ELSE IF \E i \in 1..Len(articles) : ~Printable(articles[i])
        THEN Fault("get_articles", "AttributeError or TypeError")
        ELSE [op |-> "get_articles", kind |-> "listing", articles |-> articles,
              status |-> status, limit |-> limit]

(***************************************************************************)
(* get_article                                                             *)
(***************************************************************************)
RECURSIVE get_article(_, _, _)
\* lines 137-146; todo is the rest of the directory listing
get_article(fs, todo, slug) ==
    IF todo = <<>> THEN NotFound("get_article", slug)
    ELSE IF Head(todo) \in DOMAIN fs /\ Matches(fs[Head(todo)], slug)
         THEN [op |-> "get_article", kind |-> "json", slug |-> slug,
               path |-> Head(todo), article |-> fs[Head(todo)].val.d]
         ELSE get_article(fs, Tail(todo), slug)

(***************************************************************************)
(* update_article_status                                                   *)
(***************************************************************************)
Published == <<"p","u","b","l","i","s","h","e","d">>

Draft == <<"d","r","a","f","t">>

\* WithStatus without the test of line 167 for a publishedAt already there
WithStatusRestamped(article, status, t) ==
    LET a == [k \in DOMAIN article \cup {"status"} |->
                 IF k = "status" THEN JStr(status) ELSE article[k]]
    IN  IF status = Published
        THEN [k \in DOMAIN a \cup {"publishedAt"} |->
                 IF k = "publishedAt" THEN JStr(isoformat(t)) ELSE a[k]]
        ELSE a

\* lines 166-168: the record as changed in memory
WithStatus(article, status, t) ==
    LET a == [k \in DOMAIN article \cup {"status"} |->
                 IF k = "status" THEN JStr(status) ELSE article[k]]
    IN  IF status = Published /\ ~Truthy(Get(a, "publishedAt"))
        THEN [k \in DOMAIN a \cup {"publishedAt"} |->
                 IF k = "publishedAt" THEN JStr(isoformat(t)) ELSE a[k]]
        ELSE a

Updated(slug, status, path) ==
    [op |-> "update_article_status", kind |-> "updated", slug |-> slug,
     status |-> status, path |-> path]

RECURSIVE UpdateOutcomeEvery(_, _, _, _, _, _)
\* the loop of lines 161-173 without the return of line 171: every record
\* with the slug is rewritten
UpdateOutcomeEvery(fs, todo, slug, status, t, io) ==
    IF todo = <<>>
    THEN [files |-> fs, ret |-> NotFound("update_article_status", slug)]
    ELSE LET path == Head(todo)
         IN  IF ~(path \in DOMAIN fs /\ Matches(fs[path], slug))
             THEN UpdateOutcomeEvery(fs, Tail(todo), slug, status, t, io)
             ELSE [files |-> UpdateOutcomeEvery(
                                 WriteAtStart(OpenForWrite(fs, path), path,
                                     JDict(WithStatus(fs[path].val.d, status, t))),
                                 Tail(todo), slug, status, t, io).files,
                   ret |-> Updated(slug, status, path)]

RECURSIVE UpdateOutcome(_, _, _, _, _, _)
\* lines 161-175 run without interruption: a failed open or dump is caught by
\* the except and the scan goes on with the next file
UpdateOutcome(fs, todo, slug, status, t, io) ==
    IF todo = <<>>
    THEN [files |-> fs, ret |-> NotFound("update_article_status", slug)]
    ELSE LET path == Head(todo)
         IN  IF ~(path \in DOMAIN fs /\ Matches(fs[path], slug))
             THEN UpdateOutcome(fs, Tail(todo), slug, status, t, io)
             ELSE CASE io = "open"  -> UpdateOutcome(fs, Tail(todo), slug, status, t, io)
                    [] io = "write" -> UpdateOutcome(OpenForWrite(fs, path), Tail(todo),
                                                     slug, status, t, io)
                    [] OTHER ->
                         [files |-> WriteAtStart(OpenForWrite(fs, path), path,
                                       JDict(WithStatus(fs[path].val.d, status, t))),
                          ret |-> Updated(slug, status, path)]

(***************************************************************************)
(* delete_article                                                          *)
(***************************************************************************)
RECURSIVE DeleteOutcomeEvery(_, _, _)
\* the loop of lines 189-197 without the return of line 195: every record
\* with the slug is removed
DeleteOutcomeEvery(fs, todo, slug) ==
    IF todo = <<>>
    THEN [files |-> fs, ret |-> NotFound("delete_article", slug)]
    ELSE IF Head(todo) \in DOMAIN fs /\ Matches(fs[Head(todo)], slug)
         THEN [files |-> DeleteOutcomeEvery(Unlink(fs, Head(todo)), Tail(todo), slug).files,
               ret |-> [op |-> "delete_article", kind |-> "deleted", slug |-> slug,
                        path |-> Head(todo)]]
         ELSE DeleteOutcomeEvery(fs, Tail(todo), slug)

RECURSIVE DeleteOutcome(_, _, _)
\* lines 189-199 run without interruption
DeleteOutcome(fs, todo, slug) ==
    IF todo = <<>>
    THEN [files |-> fs, ret |-> NotFound("delete_article", slug)]
    ELSE IF Head(todo) \in DOMAIN fs /\ Matches(fs[Head(todo)], slug)
         THEN [files |-> Unlink(fs, Head(todo)),
               ret |-> [op |-> "delete_article", kind |-> "deleted", slug |-> slug,
                        path |-> Head(todo)]]
         ELSE DeleteOutcome(fs, Tail(todo), slug)

(***************************************************************************)
(* Arguments the tools are called with.                                    *)
(***************************************************************************)
Recipe == JDict([type |-> JStr(<<"R","e","c","i","p","e">>)])

Request(title, schema_markup) ==
    [title |-> title, content |-> <<"b","o","d","y">>,
     meta_description |-> <<"m","e","t","a">>, primary_keyword |-> <<"g","i","n">>,
     secondary_keywords |-> <<JStr(<<"t","o","n","i","c">>)>>,
     image_url |-> <<"u","r","l">>, schema_markup |-> schema_markup]

Requests ==
    { Request(<<"G","i","n">>, JNull),
      Request(<<"g","i","n","!">>, Recipe),
      Request(<<"O","x">>, JDict(<<>>)) }

Slugs == { slugify(r.title) : r \in Requests }

Archived == <<"a","r","c","h","i","v","e","d">>

Statuses == {Draft, Published, Archived}

Filters == {All, Draft}

Limits == {-1, 0, 1}

IoOutcomes == {"ok", "open", "write"}

(***************************************************************************)
(* What ARTICLES_DIR may hold when the server starts: nothing, or one file *)
(* it did not write itself.                                                *)
(***************************************************************************)
\* a draft from before publishedAt was recorded
LegacyDraft ==
    [n \in {<<"o","l","d",".","j","s","o","n">>} |->
        Dumped(JDict([id |-> JStr(<<"o","l","d">>), slug |-> JStr(<<"g","i","n">>),
                      title |-> JStr(<<"O","l","d">>),
                      metaDescription |-> JStr(<<"m","e","t","a">>),
                      content |-> JStr(<<"b","o","d","y">>),
                      primaryKeyword |-> JStr(<<"g","i","n">>),
                      secondaryKeywords |-> JList(<<>>),
                      imageUrl |-> JStr(<<"u","r","l">>),
                      imageAlt |-> JStr(<<"O","l","d">>),
                      schemaMarkup |-> Recipe,
                      status |-> JStr(Draft),
                      createdAt |-> JStr(isoformat(0)), publishedAt |-> JNull]))]

\* valid JSON that is no object
ArrayFile == [n \in {<<"a","r","r",".","j","s","o","n">>} |-> Dumped(JList(<<>>))]

\* an object that is no article: a slug, and a createdAt that is no string
PartialFile ==
    [n \in {<<"r","a","w",".","j","s","o","n">>} |->
        Dumped(JDict([slug |-> JStr(<<"g","i","n">>), createdAt |-> JNum(5)]))]

InitialDirs == {<<>>, LegacyDraft, ArrayFile, PartialFile}

Procs == {1, 2}

Idle == [pc |-> "idle"]

Init ==
    /\ files \in InitialDirs
    /\ clock = 0
    /\ result = NoCall
    /\ storeOnly = (files = <<>>)
    /\ proc = [p \in Procs |-> Idle]
    /\ lastWriter = 0
    /\ calls = [p \in Procs |-> 0]
    /\ issued = {}

(***************************************************************************)
(* The tools as single steps: no await inside a handler, so within one     *)
(* server process a call runs from its first line to its return.           *)
(***************************************************************************)
Tick ==
    /\ clock < MaxClock
    /\ clock' = clock + 1
    /\ UNCHANGED <<files, result, storeOnly, proc, lastWriter, calls, issued>>

SaveArticle ==
    \E req \in Requests, tNow \in clock..MaxClock, io \in IoOutcomes :
        LET article == NewArticle(req, clock, tNow)
            out     == SaveOutcome(files, article, io)
        IN  /\ ArticlePath(article) \in DOMAIN files \/ Cardinality(DOMAIN files) < MaxFiles
            /\ files' = out.files
            /\ result' = WithRequest(WithIo(out.ret, io), req)
            /\ clock' = tNow
            /\ UNCHANGED <<storeOnly, proc, lastWriter, calls, issued>>

GetArticles ==
    \E status \in Filters, limit \in Limits :
        /\ result' = get_articles(files, status, limit)
        /\ UNCHANGED <<files, clock, storeOnly, proc, lastWriter, calls, issued>>

GetArticle ==
    \E slug \in Slugs, order \in GlobOrders(files) :
        /\ result' = get_article(files, order, slug)
        /\ UNCHANGED <<files, clock, storeOnly, proc, lastWriter, calls, issued>>

UpdateArticleStatus ==
    \E slug \in Slugs, status \in Statuses, order \in GlobOrders(files), io \in IoOutcomes :
        LET out == UpdateOutcome(files, order, slug, status, clock, io)
        IN  /\ io = "ok" \/ \E f \in DOMAIN files : Matches(files[f], slug)
            /\ files' = out.files
            /\ result' = WithIo(out.ret, io)
            /\ UNCHANGED <<clock, storeOnly, proc, lastWriter, calls, issued>>

DeleteArticle ==
    \E slug \in Slugs, order \in GlobOrders(files) :
        LET out == DeleteOutcome(files, order, slug)
        IN  /\ files' = out.files
            /\ result' = out.ret
            /\ UNCHANGED <<clock, storeOnly, proc, lastWriter, calls, issued>>

Next ==
    \/ Tick
    \/ SaveArticle
    \/ GetArticles
    \/ GetArticle
    \/ UpdateArticleStatus
    \/ DeleteArticle

Spec == Init /\ [][Next]_vars

(***************************************************************************)
(* The tools step by step, for calls that overlap (two server processes on *)
(* one directory): a call is cut at its system calls.  A scan of the       *)
(* directory up to the first match is one step; open(path, "w"), the dump  *)
(* and unlink are steps of their own.  proc[p] is where call p stands,     *)
(* lastWriter the process whose dump reached a file last.                  *)
(***************************************************************************)
RECURSIVE SkipToMatch(_, _, _)
\* the rest of the listing from the first file that parses and has the slug
SkipToMatch(fs, todo, slug) ==
    IF todo = <<>> THEN <<>>
    ELSE IF Head(todo) \in DOMAIN fs /\ Matches(fs[Head(todo)], slug) THEN todo
    ELSE SkipToMatch(fs, Tail(todo), slug)

Free(p) == proc[p].pc \in {"idle", "done"} /\ calls[p] < MaxCalls

\* the arguments of the overlapping calls: one slug, two titles that give it
OverlapRequests == { r \in Requests : slugify(r.title) = <<"g","i","n">> }

OverlapSlugs == { slugify(r.title) : r \in OverlapRequests }

OverlapStatuses == {Draft, Published}

Done(ret) == [pc |-> "done", ret |-> ret]

\* lines 54-80: the record is built and the file opened for writing
SaveOpen(p) ==
    /\ Free(p)
    /\ calls' = [calls EXCEPT ![p] = @ + 1]
    /\ \E req \in OverlapRequests, tNow \in clock..MaxClock :
           LET article == NewArticle(req, clock, tNow)
           IN  /\ ArticlePath(article) \in DOMAIN files
                    \/ Cardinality(DOMAIN files) < MaxFiles
               /\ files' = OpenForWrite(files, ArticlePath(article))
               /\ clock' = tNow
               /\ proc' = [proc EXCEPT ![p] = [pc |-> "save_opened", article |-> article]]
    /\ UNCHANGED <<result, storeOnly, lastWriter, issued>>

\* lines 81-83
SaveWrite(p) ==
    /\ proc[p].pc = "save_opened"
    /\ files' = WriteAtStart(files, ArticlePath(proc[p].article), JDict(proc[p].article))
    /\ proc' = [proc EXCEPT ![p] = [pc |-> "done", ret |-> Saved(proc[p].article),
                                    article |-> proc[p].article]]
    /\ lastWriter' = p
    /\ UNCHANGED <<clock, result, storeOnly, calls, issued>>

\* lines 161-168: the scan to the first match and the change in memory
UpdateScan(p) ==
    /\ Free(p)
    /\ calls' = [calls EXCEPT ![p] = @ + 1]
    /\ \E slug \in OverlapSlugs, status \in OverlapStatuses, order \in GlobOrders(files) :
           LET todo == SkipToMatch(files, order, slug)
           IN  proc' = [proc EXCEPT ![p] =
                   IF todo = <<>> THEN Done(NotFound("update_article_status", slug))
                   ELSE [pc |-> "update_matched", slug |-> slug, status |-> status,
                         path |-> Head(todo), rest |-> Tail(todo),
                         article |-> WithStatus(files[Head(todo)].val.d, status, clock)]]
    /\ UNCHANGED <<files, clock, result, storeOnly, lastWriter, issued>>

\* line 169: open(file_path, "w") creates the file when it is gone
UpdateOpen(p) ==
    /\ proc[p].pc = "update_matched"
    /\ files' = OpenForWrite(files, proc[p].path)
    /\ proc' = [proc EXCEPT ![p].pc = "update_opened"]
    /\ UNCHANGED <<clock, result, storeOnly, lastWriter, calls, issued>>

\* lines 170-171
UpdateWrite(p) ==
    /\ proc[p].pc = "update_opened"
    /\ files' = WriteAtStart(files, proc[p].path, JDict(proc[p].article))
    /\ proc' = [proc EXCEPT ![p] =
                   [pc |-> "done", ret |-> Updated(proc[p].slug, proc[p].status, proc[p].path),
                    article |-> proc[p].article]]
    /\ lastWriter' = p
    /\ UNCHANGED <<clock, result, storeOnly, calls, issued>>

\* lines 189-193: the scan to the first match
DeleteScan(p) ==
    /\ Free(p)
    /\ calls' = [calls EXCEPT ![p] = @ + 1]
    /\ \E slug \in OverlapSlugs, order \in GlobOrders(files) :
           LET todo == SkipToMatch(files, order, slug)
           IN  proc' = [proc EXCEPT ![p] =
                   IF todo = <<>> THEN Done(NotFound("delete_article", slug))
                   ELSE [pc |-> "delete_matched", slug |-> slug,
                         path |-> Head(todo), rest |-> Tail(todo)]]
    /\ UNCHANGED <<files, clock, result, storeOnly, lastWriter, issued>>

\* lines 194-197: unlink; when the file is gone by now unlink raises, the
\* except catches it and the scan goes on with the rest of the listing
DeleteUnlink(p) ==
    /\ proc[p].pc = "delete_matched"
    /\ IF proc[p].path \in DOMAIN files
       THEN /\ files' = Unlink(files, proc[p].path)
            /\ proc' = [proc EXCEPT ![p] =
                   Done([op |-> "delete_article", kind |-> "deleted",
                         slug |-> proc[p].slug, path |-> proc[p].path])]
       ELSE /\ files' = files
            /\ LET todo == SkipToMatch(files, proc[p].rest, proc[p].slug)
               IN  proc' = [proc EXCEPT ![p] =
                       IF todo = <<>> THEN Done(NotFound("delete_article", proc[p].slug))
                       ELSE [pc |-> "delete_matched", slug |-> proc[p].slug,
                             path |-> Head(todo), rest |-> Tail(todo)]]
    /\ UNCHANGED <<clock, result, storeOnly, lastWriter, calls, issued>>

NextConc ==
    \/ Tick
    \/ \E p \in Procs : SaveOpen(p)
    \/ \E p \in Procs : SaveWrite(p)
    \/ \E p \in Procs : UpdateScan(p)
    \/ \E p \in Procs : UpdateOpen(p)
    \/ \E p \in Procs : UpdateWrite(p)
    \/ \E p \in Procs : DeleteScan(p)
    \/ \E p \in Procs : DeleteUnlink(p)

\* the overlapping calls start on an empty directory
InitConc == Init /\ files = <<>>

SpecConc == InitConc /\ [][NextConc]_vars

(***************************************************************************)
(* Properties of the store, one call at a time.                            *)
(***************************************************************************)
IsRecord(file) == file.ok /\ file.val.t = "dict"

EchoedFields ==
    [title |-> "title", meta_description |-> "metaDescription", content |-> "content",
     primary_keyword |-> "primaryKeyword", image_url |-> "imageUrl"]

\* C1: right after save_article returns its confirmation, get_article with the
\* returned slug gives, under every directory order, a record whose title,
\* metaDescription, content, primaryKeyword, secondaryKeywords, imageUrl and
\* schemaMarkup (when one was passed) are the arguments of the call, with id,
\* createdAt and publishedAt present.
C1_RoundTrip ==
    result.kind = "saved" =>
        \A order \in GlobOrders(files) :
            LET got == get_article(files, order, result.slug)
                req == result.request
            IN  /\ got.kind = "json"
                /\ \A arg \in DOMAIN EchoedFields :
                       Get(got.article, EchoedFields[arg]) = JStr(req[arg])
                /\ Get(got.article, "secondaryKeywords") = JList(req.secondary_keywords)
                /\ req.schema_markup # JNull =>
                       Get(got.article, "schemaMarkup") = req.schema_markup
                /\ \A k \in {"id", "createdAt", "publishedAt"} :
                       Truthy(Get(got.article, k))

\* the slugs of the records a listing returned
ListedSlugs(ret) ==
    IF ret.kind = "listing"
    THEN { Get(ret.articles[i].d, "slug") : i \in 1..Len(ret.articles) }
    ELSE {}

\* C2: in a store that holds only what save_article wrote, once delete_article
\* has returned its confirmation for a slug, get_article for that slug returns
\* not-found and no listing holds a record with that slug.
C2_DeletedIsGone ==
    (storeOnly /\ result.kind = "deleted") =>
        /\ \A order \in GlobOrders(files) :
               get_article(files, order, result.slug).kind = "notfound"
        /\ \A status \in Filters, limit \in Limits :
               JStr(result.slug) \notin ListedSlugs(get_articles(files, status, limit))

\* C3: on a store that holds only what save_article wrote, get_articles(status, N)
\* never returns more than N records, for N = 0 and negative N too (where no
\* record at all is within the limit).
C3_ListLimit ==
    (storeOnly /\ result.op = "get_articles" /\ result.kind \in {"listing", "empty"}) =>
        Len(result.articles) <= (IF result.limit < 0 THEN 0 ELSE result.limit)

PublishedAtOf(file) == Get(file.val.d, "publishedAt")

\* C4: a call of update_article_status changes the publishedAt of a stored
\* record only if that record is the one it matched, the new status is
\* published and the record had no publishedAt; a publishedAt once recorded
\* is never changed by the call.
C4_PublishedAtSetOnce ==
    [][result'.op = "update_article_status" =>
          \A f \in DOMAIN files \cap DOMAIN files' :
              (IsRecord(files[f]) /\ IsRecord(files'[f])
                 /\ PublishedAtOf(files'[f]) # PublishedAtOf(files[f])) =>
                  /\ ~Truthy(PublishedAtOf(files[f]))
                  /\ result'.kind = "updated"
                  /\ result'.status = Published
                  /\ result'.path = f
                  /\ PublishedAtOf(files'[f]) = JStr(isoformat(clock))]_vars

\* a call with status published has just left alone the publishedAt that a
\* record got when it was created at an earlier time
C4_Witness ==
    /\ result.kind = "updated"
    /\ result.status = Published
    /\ result.path \in DOMAIN files
    /\ IsRecord(files[result.path])
    /\ Truthy(PublishedAtOf(files[result.path]))
    /\ PublishedAtOf(files[result.path]) = Get(files[result.path].val.d, "createdAt")
    /\ PublishedAtOf(files[result.path]) # JStr(isoformat(clock))

ArticleKeys ==
    {"id", "slug", "title", "metaDescription", "content", "primaryKeyword",
     "secondaryKeywords", "imageUrl", "imageAlt", "schemaMarkup", "status",
     "createdAt", "publishedAt"}

\* a file that holds an Article: an object with every field, of the right type
WellFormed(file) ==
    /\ IsRecord(file)
    /\ DOMAIN file.val.d = ArticleKeys
    /\ \A k \in ArticleKeys \ {"secondaryKeywords", "schemaMarkup", "publishedAt"} :
           file.val.d[k].t = "str"
    /\ file.val.d.secondaryKeywords.t = "list"
    /\ file.val.d.schemaMarkup.t = "dict"
    /\ file.val.d.publishedAt.t \in {"str", "null"}

\* the directory with the malformed files removed
WithoutMalformed(fs) == [f \in { g \in DOMAIN fs : WellFormed(fs[g]) } |-> fs[f]]

\* a directory order with the malformed files removed
RECURSIVE KeepWellFormed(_, _)
KeepWellFormed(fs, order) ==
    IF order = <<>> THEN <<>>
    ELSE IF WellFormed(fs[Head(order)])
         THEN <<Head(order)>> \o KeepWellFormed(fs, Tail(order))
         ELSE KeepWellFormed(fs, Tail(order))

\* C5: whatever malformed files the directory holds, get_articles, get_article,
\* update_article_status and delete_article raise no fault and return what they
\* return on the same directory without the malformed files.
C5_MalformedIgnored ==
    LET clean == WithoutMalformed(files)
    IN  /\ \A status \in Filters, limit \in Limits :
               get_articles(files, status, limit) = get_articles(clean, status, limit)
        /\ \A slug \in Slugs, order \in GlobOrders(files) :
               LET kept == KeepWellFormed(files, order)
               IN  /\ get_article(files, order, slug) = get_article(clean, kept, slug)
                   /\ \A status \in Statuses :
                          UpdateOutcome(files, order, slug, status, clock, "ok").ret
                              = UpdateOutcome(clean, kept, slug, status, clock, "ok").ret
                   /\ DeleteOutcome(files, order, slug).ret
                          = DeleteOutcome(clean, kept, slug).ret

\* C6: in a store that holds only what the tools wrote, the status of every
\* stored record is draft or published.
C6_StatusEnum ==
    \A f \in DOMAIN files :
        (storeOnly /\ IsRecord(files[f]) /\ "status" \in DOMAIN files[f].val.d) =>
            files[f].val.d.status \in {JStr(Draft), JStr(Published)}

\* C10: on a store that holds only what save_article wrote, when the write of
\* the file fails, save_article and update_article_status end in a fault, not in
\* a confirmation and not in the not-found sentinel.
C10_WriteFailureSurfaced ==
    (storeOnly /\ result.op \in {"save_article", "update_article_status"}
       /\ result.io # "ok") =>
        result.kind = "fault"

(***************************************************************************)
(* Properties of overlapping calls.                                        *)
(***************************************************************************)
BothReturned(kind) ==
    \A p \in Procs : proc[p].pc = "done" /\ proc[p].ret.kind = kind

\* C7: when two save_article calls with the same slug and the same second have
\* both returned their confirmation, the one file of that id holds the complete
\* record of the call whose dump came last.
C7_LastSaveWins ==
    (BothReturned("saved") /\ proc[1].ret.path = proc[2].ret.path) =>
        /\ proc[1].ret.path \in DOMAIN files
        /\ files[proc[1].ret.path] = Dumped(JDict(proc[lastWriter].article))

\* C8: when two update_article_status calls on the same slug have both returned
\* their confirmation for the same file, the file holds a complete record that
\* parses, with the status asked for by the call whose dump came last and the
\* other fields as that call read them.
C8_LastUpdateWins ==
    (BothReturned("updated") /\ proc[1].ret.path = proc[2].ret.path) =>
        /\ proc[1].ret.path \in DOMAIN files
        /\ IsRecord(files[proc[1].ret.path])
        /\ Get(files[proc[1].ret.path].val.d, "status") = JStr(proc[lastWriter].ret.status)
        /\ \A k \in DOMAIN proc[lastWriter].article \ {"status", "publishedAt"} :
               Get(files[proc[1].ret.path].val.d, k) = proc[lastWriter].article[k]

\* C9: a file that delete_article has removed comes to exist again only by
\* the open of a new save_article call.
C9_DeletionPermanent ==
    [][\A p \in Procs :
          (/\ proc[p].pc = "done"
           /\ proc[p].ret.kind = "deleted"
           /\ proc[p].ret.path \notin DOMAIN files
           /\ proc[p].ret.path \in DOMAIN files') =>
              \E q \in Procs :
                  /\ proc[q].pc # "save_opened"
                  /\ proc'[q].pc = "save_opened"
                  /\ ArticlePath(proc'[q].article) = proc[p].ret.path]_vars

(***************************************************************************)
(* The ids given out over the life of the store: save_article and          *)
(* delete_article on a directory that starts empty, with a record of every *)
(* confirmation save_article returned.                                     *)
(***************************************************************************)
\* what one confirmed save_article call was given: its id, from which slug
\* and which second, for which title
Issued(article, req, tId) ==
    [id |-> article.id.s, slug |-> article.slug.s, second |-> Second(tId),
     title |-> req.title]

\* save_article as in SaveArticle, and the confirmation is recorded
SaveArticleIssuing ==
    \E req \in Requests, tNow \in clock..MaxClock, io \in IoOutcomes :
        LET article == NewArticle(req, clock, tNow)
            out     == SaveOutcome(files, article, io)
        IN  /\ ArticlePath(article) \in DOMAIN files \/ Cardinality(DOMAIN files) < MaxFiles
            /\ files' = out.files
            /\ result' = WithRequest(WithIo(out.ret, io), req)
            /\ clock' = tNow
            /\ issued' = IF out.ret.kind = "saved"
                         THEN issued \cup {Issued(article, req, clock)}
                         ELSE issued
            /\ UNCHANGED <<storeOnly, proc, lastWriter, calls>>

NextIds ==
    \/ Tick
    \/ SaveArticleIssuing
    \/ DeleteArticle

InitIds == Init /\ files = <<>>

SpecIds == InitIds /\ [][NextIds]_vars

\* C11: two save_article calls were given the same id only if they had the
\* same slug and read the same wall-clock second, and no two stored records
\* carry the same id.
C11_IdsUnique ==
    /\ \A a, b \in issued :
           a.id = b.id => (a.slug = b.slug /\ a.second = b.second)
    /\ \A f, g \in DOMAIN files :
           (f # g /\ IsRecord(files[f]) /\ IsRecord(files[g])
              /\ "id" \in DOMAIN files[f].val.d /\ "id" \in DOMAIN files[g].val.d) =>
               files[f].val.d.id # files[g].val.d.id

\* two calls with one slug in one second were given one id, two calls with
\* that slug in different seconds two ids, and two records are stored
C11_Witness ==
    /\ \E a, b \in issued : a.id = b.id /\ a.title # b.title
    /\ \E a, b \in issued : a.slug = b.slug /\ a.second # b.second /\ a.id # b.id
    /\ \E f, g \in DOMAIN files : f # g /\ IsRecord(files[f]) /\ IsRecord(files[g])

\* some stored file parses to a record with the slug
HasSlug(fs, slug) ==
    \E f \in DOMAIN fs : IsRecord(fs[f]) /\ Get(fs[f].val.d, "slug") = JStr(slug)

\* C12: when no stored file parses to a record with the queried slug, then
\* under every directory order get_article, update_article_status (whatever
\* the status) and delete_article return the not-found sentinel, raise
\* nothing, and leave the directory and every file as they were.
C12_NotFoundIsSentinel ==
    \A slug \in Slugs :
        ~HasSlug(files, slug) =>
            \A order \in GlobOrders(files) :
                /\ get_article(files, order, slug) = NotFound("get_article", slug)
                /\ \A status \in Statuses, io \in IoOutcomes :
                       UpdateOutcome(files, order, slug, status, clock, io)
                           = [files |-> files,
                              ret |-> NotFound("update_article_status", slug)]
                /\ DeleteOutcome(files, order, slug)
                       = [files |-> files, ret |-> NotFound("delete_article", slug)]

\* update_article_status has just returned not-found for a slug that no
\* record has, on a directory that holds a record of another slug and a file
\* that does not parse
C12_Witness ==
    /\ result.op = "update_article_status"
    /\ result.kind = "notfound"
    /\ ~HasSlug(files, result.slug)
    /\ \E f \in DOMAIN files : IsRecord(files[f])
    /\ \E f \in DOMAIN files : ~files[f].ok

(***************************************************************************)
(* slugify on its own: every text of up to MaxLen characters over an       *)
(* alphabet with one character of each kind, and one longer title; one     *)
(* step applies slugify to the text.                                       *)
(***************************************************************************)
\* an upper-case letter, a lower-case letter, a digit, the underscore, the
\* hyphen, a blank and a punctuation mark
Alphabet == {"A", "a", "1", "_", "-", " ", "!"}

BestGinAndTonic ==
    <<"B","e","s","t"," ","G","i","n"," ","&"," ","T","o","n","i","c","!","!">>

Texts == UNION { [1..n -> Alphabet] : n \in 0..MaxLen } \cup {BestGinAndTonic}

InitSlug ==
    /\ files = <<>>
    /\ clock = 0
    /\ result \in { [op |-> "slugify", kind |-> "text", text |-> x, slug |-> <<>>] :
                       x \in Texts }
    /\ storeOnly = TRUE
    /\ proc = [p \in Procs |-> Idle]
    /\ lastWriter = 0
    /\ calls = [p \in Procs |-> 0]
    /\ issued = {}

\* lines 20-26
Slugify ==
    /\ result.kind = "text"
    /\ result' = [result EXCEPT !.kind = "slug", !.slug = slugify(result.text)]
    /\ UNCHANGED <<files, clock, storeOnly, proc, lastWriter, calls, issued>>

NextSlug == Slugify

SpecSlug == InitSlug /\ [][NextSlug]_vars

\* C13: slugify is idempotent: slugify applied to a slug gives that slug.
C13_SlugifyIdempotent ==
    result.kind = "slug" => slugify(result.slug) = result.slug

\* slugify has been applied to a text it changed into a slug of two words
C13_Witness ==
    /\ result.kind = "slug"
    /\ result.slug # result.text
    /\ "-" \in Range(result.slug)

\* the characters line 23 keeps
IsRetained(c) == IsWord(c) \/ IsSpace(c) \/ c = "-"

\* the words of a text: the maximal runs of word characters in what line 23
\* keeps of it
WordCount(text) ==
    LET kept == SelectSeq(text, IsRetained)
    IN  Cardinality({ i \in 1..Len(kept) :
                        IsWord(kept[i]) /\ (i = 1 \/ ~IsWord(kept[i - 1])) })

\* C14: the slug of a text holds the word characters of the text, lower-cased
\* and in their order, and one hyphen between two words and nowhere else: no
\* upper-case letter, no whitespace, no other character, no two hyphens in a
\* row, no hyphen first or last; it is empty when the text has no word
\* character; and the slug of "Best Gin & Tonic!!" is "best-gin-tonic".
C14_SlugifyShape ==
    result.kind = "slug" =>
        LET text  == result.text
            slug  == result.slug
            words == WordCount(text)
        IN  /\ \A i \in 1..Len(slug) :
                   /\ slug[i] \notin Range(UpperCase)
                   /\ ~IsSpace(slug[i])
                   /\ IsWord(slug[i]) \/ slug[i] = "-"
                   /\ slug[i] = "-" => (1 < i /\ i < Len(slug) /\ slug[i + 1] # "-")
            /\ SelectSeq(slug, IsWord) = MapLower(SelectSeq(text, IsWord))
            /\ Len(slug) = Len(SelectSeq(text, IsWord))
                              + (IF words = 0 THEN 0 ELSE words - 1)
            /\ (\A i \in 1..Len(text) : ~IsWord(text[i])) => slug = <<>>
            /\ text = BestGinAndTonic =>
                   slug = <<"b","e","s","t","-","g","i","n","-","t","o","n","i","c">>

\* slugify has been applied to the title of the example
C14_Witness ==
    /\ result.kind = "slug"
    /\ result.text = BestGinAndTonic
    /\ result.slug # <<>>

\* the names of the files that parse to a record the status filter lets through
ListedNames(fs, status) ==
    { f \in DOMAIN fs :
        IsRecord(fs[f]) /\ (status = All \/ Get(fs[f].val.d, "status") = JStr(status)) }

\* the first `limit` of those records, the greatest file name first
FirstByNameDesc(fs, status, limit) ==
    LET names == ListedNames(fs, status)
        n     == IF limit < Cardinality(names) THEN limit ELSE Cardinality(names)
    IN  [i \in 1..n |->
            fs[CHOOSE f \in names :
                   Cardinality({ g \in names : LexLess(f, g) }) = i - 1].val]

C16_UpdateFrame ==
    [][(result'.op = "update_article_status" /\ result'.kind = "updated") =>
          LET f == result'.path
          IN  /\ DOMAIN files' = DOMAIN files
              /\ f \in DOMAIN files
              /\ IsRecord(files[f]) /\ IsRecord(files'[f])
              /\ \A g \in DOMAIN files \ {f} : files'[g] = files[g]
              /\ DOMAIN files'[f].val.d \subseteq
                     DOMAIN files[f].val.d \cup {"status", "publishedAt"}
              /\ \A k \in DOMAIN files[f].val.d \ {"status", "publishedAt"} :
                     k \in DOMAIN files'[f].val.d /\ files'[f].val.d[k] = files[f].val.d[k]
              /\ Get(files'[f].val.d, "status") = JStr(result'.status)
              /\ PublishedAtOf(files'[f]) # PublishedAtOf(files[f]) =>
                     (~Truthy(PublishedAtOf(files[f])) /\ result'.status = Published)
              /\ "publishedAt" \in DOMAIN files[f].val.d =>
                     "publishedAt" \in DOMAIN files'[f].val.d]_vars

\* update_article_status has just confirmed, and another record with the
\* same slug still has another status
C16_Witness ==
    /\ result.op = "update_article_status"
    /\ result.kind = "updated"
    /\ result.path \in DOMAIN files
    /\ Get(files[result.path].val.d, "status") = JStr(result.status)
    /\ \E g \in DOMAIN files \ {result.path} :
           /\ IsRecord(files[g])
           /\ Get(files[g].val.d, "slug") = JStr(result.slug)
           /\ Get(files[g].val.d, "status") # JStr(result.status)

\* the place of the first file of a directory listing that parses to a
\* record with the slug (0 when there is none)
FirstMatch(fs, order, slug) ==
    LET hits == { i \in 1..Len(order) :
                    IsRecord(fs[order[i]]) /\ Get(fs[order[i]].val.d, "slug") = JStr(slug) }
    IN  IF hits = {} THEN 0 ELSE CHOOSE i \in hits : \A j \in hits : i <= j

\* C17: a call of delete_article that returns its confirmation removes one
\* file, which held a record with the slug, and leaves every other file
\* (other records with the slug too) in place and unchanged, so that the
\* directory holds one file less; and under every directory order the file
\* delete_article removes for that slug is the first in the order to hold a
\* record with the slug.
C17_DeleteFrame ==
    [][(result'.op = "delete_article" /\ result'.kind = "deleted"
          /\ (files' # files \/ result' # result)) =>
          LET f == result'.path
          IN  /\ f \in DOMAIN files
              /\ IsRecord(files[f])
              /\ Get(files[f].val.d, "slug") = JStr(result'.slug)
              /\ DOMAIN files' = DOMAIN files \ {f}
              /\ \A g \in DOMAIN files' : files'[g] = files[g]
              /\ Cardinality(DOMAIN files') = Cardinality(DOMAIN files) - 1
              /\ \A order \in GlobOrders(files) :
                     LET out == DeleteOutcome(files, order, result'.slug)
                         i   == FirstMatch(files, order, result'.slug)
                     IN  /\ i > 0
                         /\ out.ret.kind = "deleted"
                         /\ out.ret.path = order[i]
                         /\ out.files = [g \in DOMAIN files \ {order[i]} |-> files[g]]]_vars

\* delete_article has just confirmed, and another record with the same slug
\* is still stored
C17_Witness ==
    /\ result.op = "delete_article"
    /\ result.kind = "deleted"
    /\ result.path \notin DOMAIN files
    /\ \E g \in DOMAIN files :
           IsRecord(files[g]) /\ Get(files[g].val.d, "slug") = JStr(result.slug)

\* C18: save_article writes a record with status published and publishedAt
\* equal to createdAt; and in a store that holds only what the tools wrote,
\* every stored record has a createdAt and a publishedAt equal to it, so that
\* update_article_status with status published leaves its publishedAt alone.
C18_PublishedAtIsCreatedAt ==
    /\ \A req \in Requests, tNow \in clock..MaxClock :
           LET article == NewArticle(req, clock, tNow)
               out     == SaveOutcome(files, article, "ok")
           IN  /\ out.files[ArticlePath(article)] = Dumped(JDict(article))
               /\ article.status = JStr(Published)
               /\ article.publishedAt = article.createdAt
    /\ storeOnly =>
           \A f \in DOMAIN files :
               IsRecord(files[f]) =>
                   /\ Truthy(Get(files[f].val.d, "createdAt"))
                   /\ PublishedAtOf(files[f]) = Get(files[f].val.d, "createdAt")
                   /\ Get(WithStatus(files[f].val.d, Published, clock), "publishedAt")
                          = PublishedAtOf(files[f])

\* on a store the tools wrote, a record made a draft and published again at
\* a later time still has the publishedAt of its creation
C18_Witness ==
    /\ storeOnly
    /\ result.op = "update_article_status"
    /\ result.kind = "updated"
    /\ result.status = Published
    /\ result.path \in DOMAIN files
    /\ IsRecord(files[result.path])
    /\ Get(files[result.path].val.d, "status") = JStr(Published)
    /\ Get(files[result.path].val.d, "createdAt") # JStr(isoformat(clock))
    /\ Second(clock) > 0

Is14Digits(s) == Len(s) = 14 /\ \A i \in 1..Len(s) : s[i] \in Range(DigitChars)

\* the file name is the id of the record with ".json", and the id is the slug
\* of the record, a hyphen and fourteen digits
NamedById(f, d) ==
    /\ {"id", "slug"} \subseteq DOMAIN d
    /\ d.id.t = "str" /\ d.slug.t = "str"
    /\ f = d.id.s \o DotJson
    /\ Len(d.id.s) = Len(d.slug.s) + 15
    /\ SubSeq(d.id.s, 1, Len(d.slug.s)) = d.slug.s
    /\ d.id.s[Len(d.slug.s) + 1] = "-"
    /\ Is14Digits(SubSeq(d.id.s, Len(d.slug.s) + 2, Len(d.id.s)))

\* C20: in a store that holds only what the tools wrote, every file that
\* holds a record is named "{id}.json" for the id of that record, and the id
\* is the slug of the record, a hyphen and 14 digits; and a call of
\* update_article_status, whatever its arguments, leaves the set of file
\* names as it was.
C20_FileNamedById ==
    /\ storeOnly =>
           \A f \in DOMAIN files : IsRecord(files[f]) => NamedById(f, files[f].val.d)
    /\ \A slug \in Slugs, status \in Statuses, order \in GlobOrders(files),
             io \in IoOutcomes :
           DOMAIN UpdateOutcome(files, order, slug, status, clock, io).files
               = DOMAIN files

\* update_article_status has just rewritten one of two records the tools
\* stored
C20_Witness ==
    /\ storeOnly
    /\ result.op = "update_article_status"
    /\ result.kind = "updated"
    /\ Cardinality(DOMAIN files) = 2
    /\ \A f \in DOMAIN files : IsRecord(files[f])
    /\ Get(files[result.path].val.d, "status") = JStr(Draft)

(***************************************************************************)
(* Readers beside writers: the steps of save_article and                   *)
(* update_article_status as above, no delete_article, and get_article and  *)
(* get_articles as calls of a second process.  A reader's scan is one      *)
(* step: it opens, reads and closes each file in turn, and the steps of    *)
(* the writer fall before or after it.                                     *)
(***************************************************************************)
\* lines 137-146
ReadArticle(p) ==
    /\ Free(p)
    /\ calls' = [calls EXCEPT ![p] = @ + 1]
    /\ \E slug \in OverlapSlugs, order \in GlobOrders(files) :
           proc' = [proc EXCEPT ![p] = Done(get_article(files, order, slug))]
    /\ UNCHANGED <<files, clock, result, storeOnly, lastWriter, issued>>

\* lines 98-123, with status "all" and a limit no smaller than the directory
ListArticles(p) ==
    /\ Free(p)
    /\ calls' = [calls EXCEPT ![p] = @ + 1]
    /\ proc' = [proc EXCEPT ![p] = Done(get_articles(files, All, MaxFiles))]
    /\ UNCHANGED <<files, clock, result, storeOnly, lastWriter, issued>>

NextRead ==
    \/ Tick
    \/ \E p \in Procs : SaveOpen(p)
    \/ \E p \in Procs : SaveWrite(p)
    \/ \E p \in Procs : UpdateScan(p)
    \/ \E p \in Procs : UpdateOpen(p)
    \/ \E p \in Procs : UpdateWrite(p)
    \/ \E p \in Procs : ReadArticle(p)
    \/ \E p \in Procs : ListArticles(p)

SpecRead == InitConc /\ [][NextRead]_vars

\* C19: a get_article(slug) or get_articles("all", N) call made while an
\* update_article_status call on that slug stands between its open for
\* writing and its dump returns the record: get_article not the not-found
\* sentinel, get_articles a listing with a record of the slug.  (No call of
\* these runs deletes a file.)
C19_ReaderSeesRecord ==
    [][\A p, q \in Procs :
          (/\ p # q
           /\ proc[q].pc = "update_opened"
           /\ proc'[q] = proc[q]
           /\ calls'[p] = calls[p] + 1
           /\ proc'[p].pc = "done"
           /\ proc'[p].ret.op \in {"get_article", "get_articles"}) =>
              IF proc'[p].ret.op = "get_article"
              THEN proc'[p].ret.slug = proc[q].slug => proc'[p].ret.kind = "json"
              ELSE JStr(proc[q].slug) \in ListedSlugs(proc'[p].ret)]_vars

\* an isoformat timestamp cut to its second, as '%Y%m%d%H%M%S' writes it
StampOf(iso) ==
    SubSeq(iso, 1, 4) \o SubSeq(iso, 6, 7) \o SubSeq(iso, 9, 10)
        \o SubSeq(iso, 12, 13) \o SubSeq(iso, 15, 16) \o SubSeq(iso, 18, 19)

\* C21: in a store that holds only what the tools wrote, the id of every
\* record is its slug, a hyphen and the second of its createdAt written as
\* YYYYMMDDHHMMSS, also when the clock went on during the save_article call.
C21_IdStampIsCreatedAt ==
    storeOnly =>
        \A f \in DOMAIN files :
            IsRecord(files[f]) =>
                files[f].val.d.id.s
                    = files[f].val.d.slug.s \o <<"-">> \o StampOf(files[f].val.d.createdAt.s)

====
